---- MODULE Spec2Model ----
(***************************************************************************)
(* A model of yelp-dataset/generate_data.py: the aggregation pipeline       *)
(* (process_flavor, the two comparison processors, process_2025_businesses) *)
(* and the run of main() that calls them and writes the output file.        *)
(*                                                                          *)
(* A text (a Python str) is a sequence of one-character strings, so that    *)
(* strip(), split(","), float() and int() are computed character by         *)
(* character.  Python's None (csv.DictReader's restval for a row shorter    *)
(* than the header) is NoneVal.  A row is a function from the header's      *)
(* column names to texts; a column the header lacks is outside DOMAIN.      *)
(* A float is [kind, v]: kind "fin" with v the value in hundredths, or      *)
(* "inf", "-inf", "nan".                                                    *)
(***************************************************************************)
EXTENDS Integers, Sequences, FiniteSets, TLC

VARIABLES files, outDir, pc, data, js, output, error

vars == <<files, outDir, pc, data, js, output, error>>

----------------------------------------------------------------------------
(* Python values and texts *)

NoneVal == <<"<None>">>

Front(s) == SubSeq(s, 1, Len(s) - 1)

Last(s) == s[Len(s)]

Take(s, n) == SubSeq(s, 1, IF Len(s) < n THEN Len(s) ELSE n)

\* bool(v) of a str or None
Truthy(v) == v # NoneVal /\ v # <<>>

\* str(v) inside an f-string
Str(v) == IF v = NoneVal THEN <<"N", "o", "n", "e">> ELSE v

Whitespace == {" ", "\t"}

RECURSIVE lstrip(_)
lstrip(s) ==
    IF s = <<>> THEN s
    ELSE IF Head(s) \in Whitespace THEN lstrip(Tail(s)) ELSE s

RECURSIVE rstrip(_)
rstrip(s) ==
    IF s = <<>> THEN s
    ELSE IF Last(s) \in Whitespace THEN rstrip(Front(s)) ELSE s

strip(s) == rstrip(lstrip(s))

RECURSIVE split(_, _)
split(s, sep) ==
    LET at == {i \in 1..Len(s) : s[i] = sep}
    IN  IF at = {} THEN <<s>>
        ELSE LET i == CHOOSE k \in at : \A m \in at : k <= m
             IN  <<SubSeq(s, 1, i - 1)>> \o split(SubSeq(s, i + 1, Len(s)), sep)

\* The characters of the model in code-point order (str comparison).
CodeOrder ==
    <<"\t", " ", "+", ",", "-", ".", "0", "1", "2", "3", "4", "5", "6", "7",
      "8", "9", "A", "B", "C", "D", "T", "X", "a", "b", "c", "d", "e", "f",
      "i", "k", "n", "r", "s", "t", "u", "y">>

CharCode(c) == CHOOSE i \in 1..Len(CodeOrder) : CodeOrder[i] = c

RECURSIVE StrLess(_, _)
StrLess(a, b) ==
    IF b = <<>> THEN FALSE
    ELSE IF a = <<>> THEN TRUE
    ELSE IF Head(a) = Head(b) THEN StrLess(Tail(a), Tail(b))
    ELSE CharCode(Head(a)) < CharCode(Head(b))

Digits == <<"0", "1", "2", "3", "4", "5", "6", "7", "8", "9">>

IsDigit(c) == \E i \in 1..10 : Digits[i] = c

DigitVal(c) == (CHOOSE i \in 1..10 : Digits[i] = c) - 1

RECURSIVE DecValue(_)
DecValue(ds) == IF ds = <<>> THEN 0 ELSE DecValue(Front(ds)) * 10 + DigitVal(Last(ds))

----------------------------------------------------------------------------
(* float(), int(), float arithmetic, round(x, 2) *)

Fin(v) == [exc |-> "none", kind |-> "fin", v |-> v]

Special(k) == [exc |-> "none", kind |-> k, v |-> 0]

Raise(e) == [exc |-> e, kind |-> "nan", v |-> 0]

\* float(v) for a text over CodeOrder with at most two fraction digits
\* (no exponent, no underscore, lower-case inf/nan): the value in hundredths.
PyFloat(v) ==
    IF v = NoneVal THEN Raise("TypeError")
    ELSE
    LET t      == strip(v)
        signed == t # <<>> /\ Head(t) \in {"+", "-"}
        neg    == signed /\ Head(t) = "-"
        body   == IF signed THEN Tail(t) ELSE t
        dots   == {i \in 1..Len(body) : body[i] = "."}
        others == {i \in 1..Len(body) : body[i] # "." /\ ~IsDigit(body[i])}
        dot    == IF dots = {} THEN Len(body) + 1 ELSE CHOOSE i \in dots : TRUE
        ip     == SubSeq(body, 1, dot - 1)
        fp     == SubSeq(body, dot + 1, Len(body))
        fp2    == SubSeq(fp \o <<"0", "0">>, 1, 2)
        mag    == DecValue(ip) * 100 + DecValue(fp2)
    IN  IF body \in {<<"i", "n", "f">>, <<"i", "n", "f", "i", "n", "i", "t", "y">>}
          THEN Special(IF neg THEN "-inf" ELSE "inf")
        ELSE IF body = <<"n", "a", "n">> THEN Special("nan")
        ELSE IF others # {} \/ Cardinality(dots) > 1 \/ Len(ip) + Len(fp) = 0
          THEN Raise("ValueError")
        ELSE Fin(IF neg THEN -mag ELSE mag)

\* int(v) for a text: [exc, v]
PyInt(v) ==
    IF v = NoneVal THEN [exc |-> "TypeError", v |-> 0]
    ELSE
    LET t      == strip(v)
        signed == t # <<>> /\ Head(t) \in {"+", "-"}
        neg    == signed /\ Head(t) = "-"
        body   == IF signed THEN Tail(t) ELSE t
    IN  IF body = <<>> \/ \E i \in 1..Len(body) : ~IsDigit(body[i])
          THEN [exc |-> "ValueError", v |-> 0]
        ELSE [exc |-> "none", v |-> IF neg THEN -DecValue(body) ELSE DecValue(body)]

\* int(f) for a float: truncation toward zero
IntOfFloat(f) ==
    IF f.kind \in {"inf", "-inf"} THEN [exc |-> "OverflowError", v |-> 0]
    ELSE IF f.kind = "nan" THEN [exc |-> "ValueError", v |-> 0]
    ELSE [exc |-> "none", v |-> IF f.v >= 0 THEN f.v \div 100 ELSE -((-f.v) \div 100)]

FAdd(a, b) ==
    IF a.kind = "nan" \/ b.kind = "nan" THEN Special("nan")
    ELSE IF a.kind = "fin" /\ b.kind = "fin" THEN Fin(a.v + b.v)
    ELSE IF a.kind = "fin" THEN b
    ELSE IF b.kind = "fin" \/ a.kind = b.kind THEN a
    ELSE Special("nan")

FLess(a, b) ==
    IF a.kind = "nan" \/ b.kind = "nan" THEN FALSE
    ELSE IF a.kind = "fin" /\ b.kind = "fin" THEN a.v < b.v
    ELSE a.kind # b.kind /\ (a.kind = "-inf" \/ b.kind = "inf")

\* round(a / n, 2) in hundredths, ties to even.  It agrees with the binary
\* float result where the quotient is a dyadic fraction or no tie, which
\* holds for the datasets below (ratings in halves over fewer than 10
\* reviews of a business, or the same rating in every row).
RoundHalfEvenDiv(a, n) ==
    LET q == a \div n
        r == a - q * n
    IN  IF 2 * r < n THEN q
        ELSE IF 2 * r > n THEN q + 1
        ELSE IF q % 2 = 0 THEN q ELSE q + 1

Round2Div(total, n) ==
    IF total.kind = "fin" THEN Fin(RoundHalfEvenDiv(total.v, n)) ELSE total

----------------------------------------------------------------------------
(* collections.Counter, sorted() *)

\* A Counter (a dict) is the sequence of its items [key, n] in insertion order.
CounterGet(c, k) ==
    IF \E i \in 1..Len(c) : c[i].key = k
      THEN c[CHOOSE i \in 1..Len(c) : c[i].key = k].n
      ELSE 0

CounterInc(c, k) ==
    IF \E i \in 1..Len(c) : c[i].key = k
      THEN LET i == CHOOSE j \in 1..Len(c) : c[j].key = k
           IN  [c EXCEPT ![i].n = @ + 1]
      ELSE Append(c, [key |-> k, n |-> 1])

RECURSIVE CounterOf(_)
CounterOf(keys) ==
    IF keys = <<>> THEN <<>> ELSE CounterInc(CounterOf(Front(keys)), Last(keys))

\* The key functions handed to sorted() and heapq.nlargest(), as "a sorts
\* before b": by count descending (most_common), by year text ascending,
\* by reviews descending, by (-rating, -reviewCount) ascending.
KeyLess(key, a, b) ==
    CASE key = "count"   -> a.n > b.n
      [] key = "year"    -> StrLess(a, b)
      [] key = "reviews" -> a.reviews > b.reviews
      [] key = "rated"   -> \/ FLess(b.rating, a.rating)
                            \/ /\ ~FLess(a.rating, b.rating)
                               /\ a.rating.kind # "nan" /\ b.rating.kind # "nan"
                               /\ a.reviewCount > b.reviewCount

\* A sort step that is not stable: e goes before the elements it ties with.
InsertSorted_tiesFirst(s, e, key) ==
    LET p == Cardinality({i \in 1..Len(s) : KeyLess(key, s[i], e)})
    IN  SubSeq(s, 1, p) \o <<e>> \o SubSeq(s, p + 1, Len(s))

\* One step of a stable sort: e, later in the input than all of s, goes
\* after every element that it does not sort before.
InsertSorted(s, e, key) ==
    LET p == Cardinality({i \in 1..Len(s) : ~KeyLess(key, e, s[i])})
    IN  SubSeq(s, 1, p) \o <<e>> \o SubSeq(s, p + 1, Len(s))

\* sorted(s, key=...): stable
RECURSIVE Sorted(_, _)
Sorted(s, key) ==
    IF s = <<>> THEN <<>> ELSE InsertSorted(Sorted(Front(s), key), Last(s), key)

\* The N of every top-N list
TopN == 10

\* most_common() without its limit
most_common_unbounded(c, n) == Sorted(c, "count")

\* Counter.most_common(n): heapq.nlargest(n, items, key=count), which is
\* sorted(items, key=count, reverse=True)[:n]
most_common(c, n) == Take(Sorted(c, "count"), n)

\* The first exception of a sequence of outcomes, "none" when there is none
RECURSIVE FirstExc(_)
FirstExc(es) ==
    IF es = <<>> THEN "none"
    ELSE IF Head(es) # "none" THEN Head(es) ELSE FirstExc(Tail(es))

\* r[k]
HasKey(r, k) == k \in DOMAIN r

\* r.get(k, default)
Get(r, k, default) == IF k \in DOMAIN r THEN r[k] ELSE default

----------------------------------------------------------------------------
(* process_flavor: the reducers *)

Location(r) == Str(r["city"]) \o <<",", " ">> \o Str(r["state"])

\* line 18: Counter(r["year"] for r in rows if r["year"]); lines 19-20
year_exc(rows) ==
    IF \E i \in 1..Len(rows) : ~HasKey(rows[i], "year") THEN "KeyError" ELSE "none"

year_counts(rows) ==
    LET keys[k \in 0..Len(rows)] ==
            IF k = 0 THEN <<>>
            ELSE IF Truthy(rows[k]["year"]) THEN Append(keys[k - 1], rows[k]["year"])
            ELSE keys[k - 1]
    IN  CounterOf(keys[Len(rows)])

year_trends(rows) ==
    LET c     == year_counts(rows)
        years == Sorted([i \in 1..Len(c) |-> c[i].key], "year")
    IN  [i \in 1..Len(years) |-> [year |-> years[i], reviews |-> CounterGet(c, years[i])]]

\* line 23: r["state"] is read only when r["city"] is truthy
city_exc(rows) ==
    IF \E i \in 1..Len(rows) :
          \/ ~HasKey(rows[i], "city")
          \/ Truthy(rows[i]["city"]) /\ ~HasKey(rows[i], "state")
      THEN "KeyError" ELSE "none"

city_counts(rows) ==
    LET keys[k \in 0..Len(rows)] ==
            IF k = 0 THEN <<>>
            ELSE IF Truthy(rows[k]["city"]) /\ Truthy(rows[k]["state"])
              THEN Append(keys[k - 1], Location(rows[k]))
            ELSE keys[k - 1]
    IN  CounterOf(keys[Len(rows)])

top_cities(rows) ==
    LET top == most_common(city_counts(rows), TopN)
    IN  [i \in 1..Len(top) |-> [city |-> top[i].key, reviews |-> top[i].n]]

\* line 27
state_exc(rows) ==
    IF \E i \in 1..Len(rows) : ~HasKey(rows[i], "state") THEN "KeyError" ELSE "none"

state_counts(rows) ==
    LET keys[k \in 0..Len(rows)] ==
            IF k = 0 THEN <<>>
            ELSE IF Truthy(rows[k]["state"]) THEN Append(keys[k - 1], rows[k]["state"])
            ELSE keys[k - 1]
    IN  CounterOf(keys[Len(rows)])

top_states(rows) ==
    LET top == most_common(state_counts(rows), TopN)
    IN  [i \in 1..Len(top) |-> [state |-> top[i].key, reviews |-> top[i].n]]

\* The star bucket rounded to the nearest integer instead of truncated
StarOf_rounded(r) ==
    IF ~HasKey(r, "stars_x") THEN [exc |-> "KeyError", v |-> 0]
    ELSE LET f == PyFloat(r["stars_x"])
         IN  IF f.exc # "none" THEN [exc |-> f.exc, v |-> 0]
             ELSE IF f.kind # "fin" THEN IntOfFloat(f)
             ELSE [exc |-> "none", v |-> (f.v + 50) \div 100]

\* line 34: int(float(r["stars_x"])), as [exc, v]
StarOf(r) ==
    IF ~HasKey(r, "stars_x") THEN [exc |-> "KeyError", v |-> 0]
    ELSE LET f == PyFloat(r["stars_x"])
         IN  IF f.exc # "none" THEN [exc |-> f.exc, v |-> 0] ELSE IntOfFloat(f)

\* line 36: except (ValueError, KeyError): pass
Caught == {"ValueError", "KeyError"}

star_exc(rows) ==
    FirstExc([i \in 1..Len(rows) |->
        IF StarOf(rows[i]).exc \in Caught THEN "none" ELSE StarOf(rows[i]).exc])

star_counts(rows) ==
    LET keys[k \in 0..Len(rows)] ==
            IF k = 0 THEN <<>>
            ELSE IF StarOf(rows[k]).exc = "none" THEN Append(keys[k - 1], StarOf(rows[k]).v)
            ELSE keys[k - 1]
    IN  CounterOf(keys[Len(rows)])

\* line 38
star_dist(rows) ==
    LET c == star_counts(rows)
    IN  [s \in 1..5 |-> [stars |-> s, count |-> CounterGet(c, s)]]

\* lines 44-47: the stripped, non-empty parts of one categories text
RowCats(r) ==
    IF ~Truthy(Get(r, "categories", NoneVal)) THEN <<>>
    ELSE LET parts == split(r["categories"], ",")
             keep[k \in 0..Len(parts)] ==
                 IF k = 0 THEN <<>>
                 ELSE IF strip(parts[k]) # <<>> THEN Append(keep[k - 1], strip(parts[k]))
                 ELSE keep[k - 1]
         IN  keep[Len(parts)]

cat_counts(rows) ==
    LET keys[k \in 0..Len(rows)] ==
            IF k = 0 THEN <<>> ELSE keys[k - 1] \o RowCats(rows[k])
    IN  CounterOf(keys[Len(rows)])

top_cats(rows) ==
    LET top == most_common(cat_counts(rows), TopN)
    IN  [i \in 1..Len(top) |-> [category |-> top[i].key, count |-> top[i].n]]

\* line 53: r.get("name", "").strip()
NameOf(r) == strip(Get(r, "name", <<>>))

\* lines 53-62 for one row: the exception it raises, if any
biz_row_exc(r) ==
    IF Get(r, "name", <<>>) = NoneVal THEN "AttributeError"
    ELSE IF NameOf(r) = <<>> THEN "none"
    ELSE IF HasKey(r, "stars_x") /\ PyFloat(r["stars_x"]).exc \notin Caught \cup {"none"}
      THEN PyFloat(r["stars_x"]).exc
    ELSE IF ~HasKey(r, "city") \/ ~HasKey(r, "state") THEN "KeyError"
    ELSE "none"

biz_exc(rows) == FirstExc([i \in 1..Len(rows) |-> biz_row_exc(rows[i])])

\* lines 58-61: what the row adds to total_stars
StarsAdded(r) ==
    IF HasKey(r, "stars_x") /\ PyFloat(r["stars_x"]).exc = "none"
      THEN PyFloat(r["stars_x"]) ELSE Fin(0)

\* A fold that keeps the location of the first row of a business
biz_fold_firstLocation(acc, r) ==
    LET name == NameOf(r)
    IN  IF name = <<>> THEN acc
        ELSE LET known == \E i \in 1..Len(acc) : acc[i].name = name
                 base  == IF known THEN acc
                          ELSE Append(acc, [name |-> name, reviews |-> 0,
                                            total_stars |-> Fin(0), location |-> Location(r)])
                 i     == CHOOSE j \in 1..Len(base) : base[j].name = name
             IN  [base EXCEPT ![i].reviews = @ + 1,
                              ![i].total_stars = FAdd(@, StarsAdded(r))]

\* lines 56-62: fold one row into the accumulators (a dict, in insertion order)
biz_fold(acc, r) ==
    LET name == NameOf(r)
    IN  IF name = <<>> THEN acc
        ELSE LET known == \E i \in 1..Len(acc) : acc[i].name = name
                 base  == IF known THEN acc
                          ELSE Append(acc, [name |-> name, reviews |-> 0,
                                            total_stars |-> Fin(0), location |-> <<>>])
                 i     == CHOOSE j \in 1..Len(base) : base[j].name = name
             IN  [base EXCEPT ![i] = [name        |-> name,
                                      reviews     |-> @.reviews + 1,
                                      total_stars |-> FAdd(@.total_stars, StarsAdded(r)),
                                      location    |-> Location(r)]]

RECURSIVE biz_reviews(_)
biz_reviews(rows) ==
    IF rows = <<>> THEN <<>> ELSE biz_fold(biz_reviews(Front(rows)), Last(rows))

\* The sum of the ratings, not divided by the review count
Rating_undivided(d) == IF d.reviews # 0 THEN Round2Div(d.total_stars, 1) ELSE Fin(0)

\* line 69
Rating(d) == IF d.reviews # 0 THEN Round2Div(d.total_stars, d.reviews) ELSE Fin(0)

\* lines 64-70
top_businesses(rows) ==
    LET top_biz == Take(Sorted(biz_reviews(rows), "reviews"), TopN)
    IN  [i \in 1..Len(top_biz) |->
            [name     |-> top_biz[i].name,
             location |-> top_biz[i].location,
             reviews  |-> top_biz[i].reviews,
             rating   |-> Rating(top_biz[i])]]

\* A count of the rows whose rating parsed only
totalReviews_parsedOnly(rows) ==
    Cardinality({i \in 1..Len(rows) : StarOf(rows[i]).exc = "none"})

\* line 73
totalReviews(rows) == Len(rows)

\* read_csv(filename)
read_exc(file) == IF file.exists THEN "none" ELSE "FileNotFoundError"

\* The exception process_flavor ends with, "none" when it returns
flavor_exc(file) ==
    FirstExc(<<read_exc(file)>> \o
        IF ~file.exists THEN <<>>
        ELSE <<year_exc(file.rows), city_exc(file.rows), state_exc(file.rows),
               star_exc(file.rows), biz_exc(file.rows)>>)

\* lines 72-80: the Dataset Summary
process_flavor(rows) ==
    [totalReviews     |-> totalReviews(rows),
     yearTrends       |-> year_trends(rows),
     topCities        |-> top_cities(rows),
     topStates        |-> top_states(rows),
     starDistribution |-> star_dist(rows),
     topCategories    |-> top_cats(rows),
     topBusinesses    |-> top_businesses(rows)]

----------------------------------------------------------------------------
(* The comparison processors and process_2025_businesses *)

\* lines 86-92 for one row: the first exception, reading the cells in order
summary_row_exc(r) ==
    IF ~HasKey(r, "Flavor") THEN "KeyError"
    ELSE IF ~HasKey(r, "Total Mentions") THEN "KeyError"
    ELSE IF PyInt(r["Total Mentions"]).exc # "none" THEN PyInt(r["Total Mentions"]).exc
    ELSE IF ~HasKey(r, "Unique Businesses") THEN "KeyError"
    ELSE IF PyInt(r["Unique Businesses"]).exc # "none" THEN PyInt(r["Unique Businesses"]).exc
    ELSE IF ~HasKey(r, "Cities") THEN "KeyError"
    ELSE IF PyInt(r["Cities"]).exc # "none" THEN PyInt(r["Cities"]).exc
    ELSE IF ~HasKey(r, "Avg Review Rating") THEN "KeyError"
    ELSE PyFloat(r["Avg Review Rating"]).exc

summary_exc(file) ==
    IF ~file.exists THEN "FileNotFoundError"
    ELSE FirstExc([i \in 1..Len(file.rows) |-> summary_row_exc(file.rows[i])])

\* lines 82-93
process_comparison_summary(rows) ==
    [i \in 1..Len(rows) |->
        [flavor           |-> rows[i]["Flavor"],
         totalMentions    |-> PyInt(rows[i]["Total Mentions"]).v,
         uniqueBusinesses |-> PyInt(rows[i]["Unique Businesses"]).v,
         cities           |-> PyInt(rows[i]["Cities"]).v,
         avgRating        |-> PyFloat(rows[i]["Avg Review Rating"])]]

\* lines 99-103 for one row
comparison_row_exc(r) ==
    IF ~HasKey(r, "flavor") \/ ~HasKey(r, "city") \/ ~HasKey(r, "business_count")
      THEN "KeyError"
    ELSE PyInt(r["business_count"]).exc

comparison_exc(file) ==
    IF ~file.exists THEN "FileNotFoundError"
    ELSE FirstExc([i \in 1..Len(file.rows) |-> comparison_row_exc(file.rows[i])])

\* lines 95-104
process_2025_comparison(rows) ==
    [i \in 1..Len(rows) |->
        [flavor        |-> rows[i]["flavor"],
         city          |-> rows[i]["city"],
         businessCount |-> PyInt(rows[i]["business_count"]).v]]

\* line 110: only r["city"] is tested
city_counts_2025(rows) ==
    LET keys[k \in 0..Len(rows)] ==
            IF k = 0 THEN <<>>
            ELSE IF Truthy(rows[k]["city"]) THEN Append(keys[k - 1], Location(rows[k]))
            ELSE keys[k - 1]
    IN  CounterOf(keys[Len(rows)])

top_cities_2025(rows) ==
    LET top == most_common(city_counts_2025(rows), TopN)
    IN  [i \in 1..Len(top) |-> [city |-> top[i].key, count |-> top[i].n]]

top_states_2025(rows) ==
    LET top == most_common(state_counts(rows), TopN)
    IN  [i \in 1..Len(top) |-> [state |-> top[i].key, count |-> top[i].n]]

\* lines 120-124: the two coercions of one row, as [exc, rating, review_count]
Coerced(r) ==
    IF ~HasKey(r, "rating") THEN [exc |-> "KeyError", rating |-> Fin(0), review_count |-> 0]
    ELSE IF PyFloat(r["rating"]).exc # "none"
      THEN [exc |-> PyFloat(r["rating"]).exc, rating |-> Fin(0), review_count |-> 0]
    ELSE IF ~HasKey(r, "review_count")
      THEN [exc |-> "KeyError", rating |-> Fin(0), review_count |-> 0]
    ELSE [exc          |-> PyInt(r["review_count"]).exc,
          rating       |-> PyFloat(r["rating"]),
          review_count |-> PyInt(r["review_count"]).v]

\* line 125: the minimum number of reviews of a top-rated business
MinReviews == 10

\* A filter that wants more than MinReviews reviews
Qualifies_aboveMinimum(r) == Coerced(r).exc = "none" /\ Coerced(r).review_count > MinReviews

\* lines 119-132 for one row: whether it is appended to top_rated
Qualifies(r) == Coerced(r).exc = "none" /\ Coerced(r).review_count >= MinReviews

rated_row_exc(r) ==
    IF Coerced(r).exc \notin Caught \cup {"none"} THEN Coerced(r).exc
    ELSE IF Qualifies(r) /\ (~HasKey(r, "name") \/ ~HasKey(r, "city") \/ ~HasKey(r, "state"))
      THEN "KeyError"
    ELSE "none"

\* lines 118-132: top_rated before the sort, in row order
rated_candidates(rows) ==
    LET acc[k \in 0..Len(rows)] ==
            IF k = 0 THEN <<>>
            ELSE IF Qualifies(rows[k])
              THEN Append(acc[k - 1],
                          [name        |-> rows[k]["name"],
                           city        |-> Location(rows[k]),
                           rating      |-> Coerced(rows[k]).rating,
                           reviewCount |-> Coerced(rows[k]).review_count,
                           categories  |-> Get(rows[k], "categories", <<>>)])
            ELSE acc[k - 1]
    IN  acc[Len(rows)]

\* lines 133-134
top_rated(rows) == Take(Sorted(rated_candidates(rows), "rated"), TopN)

businesses_exc(file) ==
    IF ~file.exists THEN "FileNotFoundError"
    ELSE FirstExc(<<city_exc(file.rows), state_exc(file.rows)>> \o
                  [i \in 1..Len(file.rows) |-> rated_row_exc(file.rows[i])])

\* lines 136-141
process_2025_businesses(rows) ==
    [total     |-> Len(rows),
     topCities |-> top_cities_2025(rows),
     topStates |-> top_states_2025(rows),
     topRated  |-> top_rated(rows)]

----------------------------------------------------------------------------
(* main() *)

\* An order of main that opens the output file before the comparison
\* tables are processed
StepAfter_openFirst(step) ==
    CASE step = "black_sesame"         -> "matcha"
      [] step = "matcha"               -> "ube"
      [] step = "ube"                  -> "open"
      [] step = "open"                 -> "comparison"
      [] step = "comparison"           -> "city_comparison_2025"
      [] step = "city_comparison_2025" -> "businesses_2025"
      [] step = "businesses_2025"      -> "dumps"
      [] step = "dumps"                -> "write"
      [] step = "write"                -> "done"

\* The statements of main in order: six processing calls, json.dumps,
\* open(OUTPUT, "w"), f.write(js).
StepAfter(step) ==
    CASE step = "black_sesame"         -> "matcha"
      [] step = "matcha"               -> "ube"
      [] step = "ube"                  -> "comparison"
      [] step = "comparison"           -> "city_comparison_2025"
      [] step = "city_comparison_2025" -> "businesses_2025"
      [] step = "businesses_2025"      -> "dumps"
      [] step = "dumps"                -> "open"
      [] step = "open"                 -> "write"
      [] step = "write"                -> "done"

ProcessingSteps ==
    {"black_sesame", "matcha", "ube", "comparison", "city_comparison_2025",
     "businesses_2025"}

Labels ==
    {"blackSesame", "matcha", "ube", "flavorComparison", "cityComparison2025",
     "blackSesame2025"}

\* An uncaught exception ends the run
Crash(step, exc) ==
    /\ pc' = "crashed"
    /\ error' = [step |-> step, exc |-> exc]
    /\ UNCHANGED <<files, outDir, data, js, output>>

Assign(step, label, value) ==
    /\ pc' = StepAfter(step)
    /\ data' = (label :> value) @@ data
    /\ UNCHANGED <<files, outDir, js, output, error>>

\* lines 145, 148, 151
Flavor(step, filename, label) ==
    /\ pc = step
    /\ IF flavor_exc(files[filename]) # "none"
         THEN Crash(step, flavor_exc(files[filename]))
         ELSE Assign(step, label, process_flavor(files[filename].rows))

ProcessBlackSesame == Flavor("black_sesame", "black_sesame_analysis.csv", "blackSesame")

ProcessMatcha == Flavor("matcha", "matcha_analysis.csv", "matcha")

ProcessUbe == Flavor("ube", "ube_analysis.csv", "ube")

\* line 154
ProcessComparisonSummary ==
    LET file == files["flavor_comparison_summary.csv"]
    IN  /\ pc = "comparison"
        /\ IF summary_exc(file) # "none"
             THEN Crash("comparison", summary_exc(file))
             ELSE Assign("comparison", "flavorComparison",
                         process_comparison_summary(file.rows))

\* line 157
Process2025Comparison ==
    LET file == files["asian_flavors_comparison_2025.csv"]
    IN  /\ pc = "city_comparison_2025"
        /\ IF comparison_exc(file) # "none"
             THEN Crash("city_comparison_2025", comparison_exc(file))
             ELSE Assign("city_comparison_2025", "cityComparison2025",
                         process_2025_comparison(file.rows))

\* line 160
Process2025Businesses ==
    LET file == files["black_sesame_businesses_2025.csv"]
    IN  /\ pc = "businesses_2025"
        /\ IF businesses_exc(file) # "none"
             THEN Crash("businesses_2025", businesses_exc(file))
             ELSE Assign("businesses_2025", "blackSesame2025",
                         process_2025_businesses(file.rows))

\* lines 162-172: the comment line and the assignment of json.dumps(data)
Serialize ==
    /\ pc = "dumps"
    /\ js' = [comment  |-> "// Asian Flavors Data - Generated from Yelp Academic Dataset",
              constant |-> "flavorData",
              value    |-> [l \in Labels |-> data[l]]]
    /\ pc' = StepAfter("dumps")
    /\ UNCHANGED <<files, outDir, data, output, error>>

\* line 174: open(OUTPUT, "w") creates or truncates the file
OpenOutput ==
    /\ pc = "open"
    /\ IF outDir
         THEN /\ output' = [state |-> "empty", content |-> <<>>]
              /\ pc' = StepAfter("open")
              /\ UNCHANGED <<files, outDir, data, js, error>>
         ELSE Crash("open", "FileNotFoundError")

\* line 175
WriteOutput ==
    /\ pc = "write"
    /\ output' = [state |-> "written", content |-> <<js>>]
    /\ pc' = StepAfter("write")
    /\ UNCHANGED <<files, outDir, data, js, error>>

Next ==
    \/ ProcessBlackSesame
    \/ ProcessMatcha
    \/ ProcessUbe
    \/ ProcessComparisonSummary
    \/ Process2025Comparison
    \/ Process2025Businesses
    \/ Serialize
    \/ OpenOutput
    \/ WriteOutput

----------------------------------------------------------------------------
(* Input files *)

File(rows) == [exists |-> TRUE, rows |-> rows]

Missing == [exists |-> FALSE, rows |-> <<>>]

Row(year, city, state, stars_x, categories, name) ==
    [year |-> year, city |-> city, state |-> state, stars_x |-> stars_x,
     categories |-> categories, name |-> name]

Austin == <<"A", "u", "s", "t", "i", "n">>

\* The two rows of the example
ExampleRows ==
    << Row(<<"2", "0", "2", "0">>, Austin, <<"T", "X">>, <<"4", ".", "5">>,
           <<"B", "a", "k", "e", "r", "y", ",", " ", "D", "e", "s", "s", "e", "r", "t">>,
           <<"A">>),
       Row(<<"2", "0", "2", "0">>, <<>>, <<>>, <<"b", "a", "d">>, <<>>, <<"A">>) >>

SummaryRows ==
    << ("Flavor" :> <<"u", "b", "e">>) @@ ("Total Mentions" :> <<"1", "2">>)
       @@ ("Unique Businesses" :> <<"7">>) @@ ("Cities" :> <<"3">>)
       @@ ("Avg Review Rating" :> <<"4", ".", "2", "5">>) >>

ComparisonRows ==
    << [flavor |-> <<"u", "b", "e">>, city |-> Austin, business_count |-> <<"5">>] >>

BizRow(name, city, state, rating, review_count) ==
    [name |-> name, city |-> city, state |-> state, rating |-> rating,
     review_count |-> review_count, categories |-> <<"D", "e", "s", "s", "e", "r", "t">>]

BusinessRows ==
    << BizRow(<<"A">>, Austin, <<"T", "X">>, <<"4", ".", "5">>, <<"1", "2">>) >>

FileNames ==
    {"black_sesame_analysis.csv", "matcha_analysis.csv", "ube_analysis.csv",
     "flavor_comparison_summary.csv", "asian_flavors_comparison_2025.csv",
     "black_sesame_businesses_2025.csv"}

\* A well-formed set of input files
GoodFiles ==
    [f \in FileNames |->
        CASE f = "flavor_comparison_summary.csv"     -> File(SummaryRows)
          [] f = "asian_flavors_comparison_2025.csv" -> File(ComparisonRows)
          [] f = "black_sesame_businesses_2025.csv"  -> File(BusinessRows)
          [] OTHER                                   -> File(ExampleRows)]

Start(fs, dirs) ==
    /\ files \in fs
    /\ outDir \in dirs
    /\ pc = "black_sesame"
    /\ data = <<>>
    /\ js = <<>>
    /\ output = [state |-> "untouched", content |-> <<>>]
    /\ error = [step |-> "none", exc |-> "none"]

FilesWith(flavorRows, businessRows) ==
    [GoodFiles EXCEPT !["black_sesame_analysis.csv"] = File(flavorRows),
                      !["black_sesame_businesses_2025.csv"] = File(businessRows)]

SeqsUpTo(S, n) == UNION {[1..m -> S] : m \in 0..n}

\* A dataset whose header lacks column c
DropColumn(rows, c) ==
    [i \in 1..Len(rows) |-> [k \in (DOMAIN rows[i]) \ {c} |-> rows[i][k]]]

Dallas == <<"D", "a", "l", "l", "a", "s">>

TX == <<"T", "X">>

Y2020 == <<"2", "0", "2", "0">>

Y2019 == <<"2", "0", "1", "9">>

Bakery == <<"B", "a", "k", "e", "r", "y">>

Dessert == <<"D", "e", "s", "s", "e", "r", "t">>

\* Rows with clean and with dirty cells: empty, padded, unparsable,
\* out-of-range, infinite and not-a-number ratings, a cell the row lacks
\* (None), empty and blank names.
DirtyRows ==
    { ExampleRows[1],
      ExampleRows[2],
      Row(Y2019, Dallas, TX, <<" ", "5", " ">>,
          <<" ", ",", " ">> \o Dessert \o <<" ", ",">>, <<" ", "A", " ">>),
      Row(<<>>, Austin, <<>>, <<"0">>, Bakery, <<"B">>),
      Row(Y2020, Dallas, TX, <<"7">>, <<>>, <<>>),
      Row(Y2019, Austin, TX, <<"0", ".", "5">>, Dessert, <<"B">>),
      Row(Y2020, Austin, TX, <<"i", "n", "f">>, Bakery, <<"A">>),
      Row(Y2019, <<>>, TX, <<"n", "a", "n">>, NoneVal, <<" ", " ">>),
      Row(Y2020, Dallas, TX, NoneVal, NoneVal, <<"B">>) }

\* Rows whose cells are all present, used with a column dropped
PlainRows ==
    { ExampleRows[1],
      Row(Y2019, Dallas, TX, <<"5", ".", "0">>, Dessert, <<"B">>) }

DroppedColumns == {"year", "stars_x", "categories", "name"}

\* The longest dataset of dirty rows
MaxDirtyRows == 3

DirtyData ==
    SeqsUpTo(DirtyRows, MaxDirtyRows) \cup
    {DropColumn(d, c) : d \in SeqsUpTo(PlainRows, MaxDirtyRows), c \in DroppedColumns}

InitCoerce == Start({FilesWith(d, BusinessRows) : d \in DirtyData}, {TRUE})

\* Runs of main over dirty flavor datasets
SpecCoerce == InitCoerce /\ [][Next]_vars

\* The two decimal digits of k < 100
NumText(k) == <<Digits[(k \div 10) + 1], Digits[(k % 10) + 1]>>

\* The key of row i of a ranking dataset: its own, or one of seven shared
\* ones, so that a key can be met first in a row before or after its own.
KeyIdx(i, b) == IF b = 0 THEN i ELSE ((3 * i) % 7) + 1

CityText(k) == <<"c">> \o NumText(k)

\* Cities 1 and 2 lie in one state, every other city in its own.
StateText(k) == <<"s">> \o NumText(IF k = 2 THEN 1 ELSE k)

CatText(k) == <<"k">> \o NumText(k)

NameText(k) == <<"n">> \o NumText(k)

\* Row i names its blank-padded business, and both of its categories.
RankRow(i, b) ==
    Row(IF i % 2 = 0 THEN Y2020 ELSE Y2019,
        CityText(KeyIdx(i, b)),
        StateText(KeyIdx(i, b)),
        <<"4", ".", "0">>,
        CatText(KeyIdx(i, b)) \o <<",", " ">> \o CatText(i),
        (IF i % 2 = 0 THEN <<" ">> ELSE <<>>) \o NameText(KeyIdx(i, b)))

RankBizRow(i, b) ==
    BizRow(NameText(i), CityText(KeyIdx(i, b)),
           IF i % 5 = 0 THEN <<>> ELSE StateText(KeyIdx(i, b)),
           <<"4", ".", "5">>, <<"1", "2">>)

\* The longest ranking dataset: more rows than TopN
MaxRankRows == 12

\* The rows of a ranking dataset choose their key freely up to this row,
\* and the later rows repeat the choices in turn.
MaxRankBits == 8

RankChoices == [1..MaxRankBits -> {0, 1}]

RankBit(b, i) == b[((i - 1) % MaxRankBits) + 1]

InitRank ==
    Start({FilesWith([i \in 1..m |-> RankRow(i, RankBit(b, i))],
                     [i \in 1..m |-> RankBizRow(i, RankBit(b, i))]) :
              b \in RankChoices, m \in 0..MaxRankRows},
          {TRUE})

\* Runs of main over datasets with up to MaxRankRows distinct keys
SpecRank == InitRank /\ [][Next]_vars

\* The (rating, review_count) cells of row i of a top-rated dataset
RatedCells(i, b) ==
    IF b = 0 THEN <<<<"5", ".", "0">>, <<"1", "2">>>>
    ELSE CASE i % 4 = 0 -> <<<<"5", ".", "0">>, <<"9">>>>
           [] i % 4 = 1 -> <<<<"4", ".", "5">>, <<"1", "0">>>>
           [] i % 4 = 2 -> <<<<"b", "a", "d">>, <<"1", "0">>>>
           [] i % 4 = 3 -> <<<<"5", ".", "0">>, <<" ", "1", "0">>>>

RatedRow(i, b) ==
    BizRow(NameText(i), Austin, TX, RatedCells(i, b)[1], RatedCells(i, b)[2])

\* The longest top-rated dataset: more rows than TopN
MaxRatedRows == 12

\* The rows of a top-rated dataset choose their cells freely up to this
\* row; the later rows have five stars and twelve reviews.
MaxRatedBits == 7

RatedChoices == [1..MaxRatedBits -> {0, 1}]

RatedBit(b, i) == IF i <= MaxRatedBits THEN b[i] ELSE 0

InitRated ==
    Start({FilesWith(ExampleRows, [i \in 1..m |-> RatedRow(i, RatedBit(b, i))]) :
              b \in RatedChoices, m \in 0..MaxRatedRows},
          {TRUE})

\* Runs of main over business datasets around the review-count threshold
SpecRated == InitRated /\ [][Next]_vars

\* A flavor dataset, a comparison table and a business table that end
\* the run: a header without the year column, a non-numeric cell, a short row
BadFlavorRows == DropColumn(ExampleRows, "year")

BadSummaryRows == << [SummaryRows[1] EXCEPT !["Cities"] = <<"x">>] >>

BadComparisonRows == << [ComparisonRows[1] EXCEPT !["business_count"] = <<"1", ".", "5">>] >>

BadBusinessRows == << [BusinessRows[1] EXCEPT !["rating"] = NoneVal] >>

BadFiles ==
    [f \in FileNames |->
        CASE f = "flavor_comparison_summary.csv"     -> File(BadSummaryRows)
          [] f = "asian_flavors_comparison_2025.csv" -> File(BadComparisonRows)
          [] f = "black_sesame_businesses_2025.csv"  -> File(BadBusinessRows)
          [] OTHER                                   -> File(BadFlavorRows)]

\* Every combination of present, missing and malformed input files
FileSystems ==
    {fs \in [FileNames -> {"good", "missing", "bad"}] : TRUE}

InitMain ==
    Start({[f \in FileNames |->
              CASE k[f] = "good"    -> GoodFiles[f]
                [] k[f] = "missing" -> Missing
                [] k[f] = "bad"     -> BadFiles[f]] : k \in FileSystems},
          BOOLEAN)

\* Runs of main over present, missing and malformed input files
SpecMain == InitMain /\ [][Next]_vars

----------------------------------------------------------------------------
(* Properties of process_flavor over dirty rows (SpecCoerce) *)

FlavorRuns ==
    { [step |-> "black_sesame", file |-> "black_sesame_analysis.csv", label |-> "blackSesame"],
      [step |-> "matcha", file |-> "matcha_analysis.csv", label |-> "matcha"],
      [step |-> "ube", file |-> "ube_analysis.csv", label |-> "ube"] }

Returned(label) == label \in DOMAIN data

RowsOf(run) == files[run.file].rows

FlavorColumns == {"year", "city", "state", "stars_x", "categories", "name"}

\* The row's rating is missing, unparsable, or truncates outside 1..5
BadStar(r) ==
    \/ ~HasKey(r, "stars_x")
    \/ PyFloat(r["stars_x"]).exc # "none"
    \/ PyFloat(r["stars_x"]).kind # "fin"
    \/ IntOfFloat(PyFloat(r["stars_x"])).v \notin 1..5

RECURSIVE SumCounts(_)
SumCounts(dist) == IF dist = <<>> THEN 0 ELSE Head(dist).count + SumCounts(Tail(dist))

\* C1: whenever process_flavor returns, totalReviews is the number of rows
\* read, whatever cells of the rows are empty or unparsable.
TotalReviewsIsRowCount ==
    \A run \in FlavorRuns :
        Returned(run.label) => data[run.label].totalReviews = Len(RowsOf(run))

\* C1: a returned summary of three rows, with an unparsable rating, an
\* empty city, an empty year and an empty name among them
TotalReviewsWitness ==
    LET rows == RowsOf(CHOOSE run \in FlavorRuns : run.label = "blackSesame")
    IN  /\ Returned("blackSesame")
        /\ Len(rows) = 3
        /\ \A i \in 1..3 : DOMAIN rows[i] = FlavorColumns
        /\ data["blackSesame"].totalReviews = 3
        /\ \E i \in 1..3 : PyFloat(rows[i]["stars_x"]).exc = "ValueError"
        /\ \E i \in 1..3 : rows[i]["city"] = <<>>
        /\ \E i \in 1..3 : rows[i]["year"] = <<>>
        /\ \E i \in 1..3 : rows[i]["name"] = <<>>

\* C2: starDistribution has the five entries 1..5 in ascending order, its
\* counts sum to at most totalReviews, to less only when some row's rating
\* is missing, unparsable or out of range, and a dataset whose only dirty
\* cells are ratings never aborts process_flavor.
StarDistributionTolerant ==
    \A run \in FlavorRuns :
        LET rows == RowsOf(run)
            dist == data[run.label].starDistribution
        IN  /\ Returned(run.label) =>
                /\ Len(dist) = 5
                /\ \A s \in 1..5 : dist[s].stars = s /\ dist[s].count >= 0
                /\ SumCounts(dist) <= data[run.label].totalReviews
                /\ SumCounts(dist) < data[run.label].totalReviews =>
                       \E i \in 1..Len(rows) : BadStar(rows[i])
            /\ (\A i \in 1..Len(rows) :
                    /\ DOMAIN rows[i] = FlavorColumns
                    /\ \A k \in FlavorColumns \ {"stars_x"} : rows[i][k] # NoneVal)
                => ~(pc = "crashed" /\ error.step = run.step)

\* The rows of a dataset that carry the (stripped) business name
RowsNamed(rows, name) ==
    {i \in 1..Len(rows) : Get(rows[i], "name", <<>>) # NoneVal /\ NameOf(rows[i]) = name}

\* The row's rating parses to a number in [0, 5]
ValidStar(r) ==
    /\ HasKey(r, "stars_x")
    /\ PyFloat(r["stars_x"]).exc = "none"
    /\ PyFloat(r["stars_x"]).kind = "fin"
    /\ PyFloat(r["stars_x"]).v \in 0..500

\* The row's rating does not parse, or parses to 0
ZeroStar(r) ==
    \/ ~HasKey(r, "stars_x")
    \/ PyFloat(r["stars_x"]).exc # "none"
    \/ PyFloat(r["stars_x"]) = Fin(0)

\* C5 as stated: a rating over valid rows is in [0, 5], and the rating is 0
\* exactly when the review count is 0.
RatingZeroIffNoReviews ==
    \A run \in FlavorRuns :
        Returned(run.label) =>
            \A i \in 1..Len(data[run.label].topBusinesses) :
                LET e == data[run.label].topBusinesses[i]
                IN  /\ (\A k \in RowsNamed(RowsOf(run), e.name) : ValidStar(RowsOf(run)[k]))
                        => e.rating.kind = "fin" /\ e.rating.v \in 0..500
                    /\ (e.rating = Fin(0)) <=> (e.reviews = 0)

\* C5 as amended: a rating over valid rows is in [0, 5]; every entry has at
\* least one review; and the rating is 0 whenever every row of the business
\* has a rating that does not parse or is 0 (so with reviews >= 1).
RatingInRangeZeroWithoutStars ==
    \A run \in FlavorRuns :
        Returned(run.label) =>
            \A i \in 1..Len(data[run.label].topBusinesses) :
                LET e == data[run.label].topBusinesses[i]
                    named == RowsNamed(RowsOf(run), e.name)
                IN  /\ (\A k \in named : ValidStar(RowsOf(run)[k]))
                        => e.rating.kind = "fin" /\ e.rating.v \in 0..500
                    /\ e.reviews >= 1
                    /\ (e.reviews = 0 => e.rating = Fin(0))
                    /\ (\A k \in named : ZeroStar(RowsOf(run)[k])) => e.rating = Fin(0)

\* C5: a returned summary with a business of two valid rated rows and a
\* positive rating, and a business whose only row has an unparsable rating
\* and whose rating is 0
RatingWitness ==
    /\ Returned("blackSesame")
    /\ \E i, j \in 1..Len(data["blackSesame"].topBusinesses) :
        LET tb   == data["blackSesame"].topBusinesses
            rows == files["black_sesame_analysis.csv"].rows
        IN  /\ tb[i].reviews = 2 /\ tb[i].rating.kind = "fin" /\ tb[i].rating.v > 0
            /\ \A k \in RowsNamed(rows, tb[i].name) : ValidStar(rows[k])
            /\ tb[j].reviews = 1 /\ tb[j].rating = Fin(0)
            /\ \A k \in RowsNamed(rows, tb[j].name) :
                   HasKey(rows[k], "stars_x") /\ PyFloat(rows[k]["stars_x"]).exc = "ValueError"

\* C6: process_flavor returns for a dataset whose rows have no year field,
\* with yearTrends the empty list.
NoYearFieldTolerated ==
    \A run \in FlavorRuns :
        (/\ RowsOf(run) # <<>>
         /\ \A i \in 1..Len(RowsOf(run)) : DOMAIN RowsOf(run)[i] = FlavorColumns \ {"year"})
        => /\ ~(pc = "crashed" /\ error.step = run.step)
           /\ Returned(run.label) => data[run.label].yearTrends = <<>>

\* The example's expected summary, but for topBusinesses
ExampleFragments(s) ==
    /\ s.totalReviews = 2
    /\ s.yearTrends = <<[year |-> Y2020, reviews |-> 2]>>
    /\ s.topCities = <<[city |-> Austin \o <<",", " ">> \o TX, reviews |-> 1]>>
    /\ s.starDistribution =
           [k \in 1..5 |-> [stars |-> k, count |-> IF k = 4 THEN 1 ELSE 0]]
    /\ Len(s.topBusinesses) = 1
    /\ s.topBusinesses[1].name = <<"A">>
    /\ s.topBusinesses[1].reviews = 2

\* C8 as stated: the example's summary, with rating 4.5 for business A.
ExampleAsStated ==
    \A run \in FlavorRuns :
        (RowsOf(run) = ExampleRows /\ Returned(run.label)) =>
            /\ ExampleFragments(data[run.label])
            /\ data[run.label].topBusinesses[1].rating = Fin(450)

\* C8 as amended: the example's summary, with rating 2.25 (4.5 over 2
\* reviews) and location ", " for business A.
ExampleAsComputed ==
    \A run \in FlavorRuns :
        (RowsOf(run) = ExampleRows /\ Returned(run.label)) =>
            /\ ExampleFragments(data[run.label])
            /\ data[run.label].topBusinesses[1].rating = Fin(225)
            /\ data[run.label].topBusinesses[1].location = <<",", " ">>

\* C8: the example has been processed
ExampleWitness ==
    /\ files["black_sesame_analysis.csv"].rows = ExampleRows
    /\ Returned("blackSesame")
    /\ data["blackSesame"].topBusinesses[1].reviews = 2

\* The sum of the ratings that parse among the rows at idx
RECURSIVE SumParsed(_, _)
SumParsed(rows, idx) ==
    IF idx = {} THEN Fin(0)
    ELSE LET k == CHOOSE m \in idx : \A n \in idx : n <= m
             f == IF HasKey(rows[k], "stars_x") THEN PyFloat(rows[k]["stars_x"])
                  ELSE Raise("KeyError")
         IN  FAdd(SumParsed(rows, idx \ {k}), IF f.exc = "none" THEN f ELSE Fin(0))

MaxOf(S) == CHOOSE m \in S : \A n \in S : n <= m

\* C10: there is one topBusinesses entry per non-empty stripped name (up to
\* TopN names) and none for an empty one; its reviews is the number of rows
\* of that name, its rating the rounded sum of the ratings that parse over
\* reviews, its location that of the last row of the name.
BusinessAccumulatorExact ==
    \A run \in FlavorRuns :
        Returned(run.label) =>
            LET rows  == RowsOf(run)
                tb    == data[run.label].topBusinesses
                names == {NameOf(rows[i]) : i \in 1..Len(rows)} \ {<<>>}
            IN  /\ {tb[i].name : i \in 1..Len(tb)} \subseteq names
                /\ Cardinality(names) <= TopN =>
                       /\ {tb[i].name : i \in 1..Len(tb)} = names
                       /\ Len(tb) = Cardinality(names)
                /\ \A i \in 1..Len(tb) :
                    LET named == RowsNamed(rows, tb[i].name)
                    IN  /\ tb[i].reviews = Cardinality(named)
                        /\ tb[i].rating = Round2Div(SumParsed(rows, named), Cardinality(named))
                        /\ tb[i].location = Location(rows[MaxOf(named)])

\* C10: a business of two rows, the first with an unparsable rating and
\* another location and padding than the last, around a row of empty name
BusinessAccumulatorWitness ==
    LET rows == files["black_sesame_analysis.csv"].rows
    IN  /\ Returned("blackSesame")
        /\ Len(rows) = 3
        /\ \A i \in 1..3 : DOMAIN rows[i] = FlavorColumns
        /\ \E i \in 1..Len(data["blackSesame"].topBusinesses) :
            LET e == data["blackSesame"].topBusinesses[i]
            IN  /\ e.reviews = 2
                /\ RowsNamed(rows, e.name) = {1, 3}
                /\ PyFloat(rows[1]["stars_x"]).exc = "ValueError"
                /\ Location(rows[1]) # Location(rows[3])
                /\ e.location = Location(rows[3])
                /\ rows[1]["name"] # rows[3]["name"]
        /\ NameOf(rows[2]) = <<>>

----------------------------------------------------------------------------
(* Properties of the rank lists (SpecRank) *)

\* The keys one row gives to a count-and-rank reducer
KeysOf(kind, r) ==
    CASE kind = "city"     -> IF Truthy(r["city"]) /\ Truthy(r["state"])
                                THEN <<Location(r)>> ELSE <<>>
      [] kind = "state"    -> IF Truthy(r["state"]) THEN <<r["state"]>> ELSE <<>>
      [] kind = "category" -> RowCats(r)
      [] kind = "name"     -> IF NameOf(r) # <<>> THEN <<NameOf(r)>> ELSE <<>>
      [] kind = "city2025" -> IF Truthy(r["city"]) THEN <<Location(r)>> ELSE <<>>

\* The keys of a dataset in the order the reducer meets them
RECURSIVE KeyStream(_, _)
KeyStream(kind, rows) ==
    IF rows = <<>> THEN <<>>
    ELSE KeyStream(kind, Front(rows)) \o KeysOf(kind, Last(rows))

\* A rank list of a summary as [key, n] items
Ranked(kind, summary) ==
    CASE kind = "city" ->
           [i \in 1..Len(summary.topCities) |->
               [key |-> summary.topCities[i].city, n |-> summary.topCities[i].reviews]]
      [] kind = "state" ->
           [i \in 1..Len(summary.topStates) |->
               [key |-> summary.topStates[i].state,
                n   |-> IF "reviews" \in DOMAIN summary.topStates[i]
                          THEN summary.topStates[i].reviews ELSE summary.topStates[i].count]]
      [] kind = "category" ->
           [i \in 1..Len(summary.topCategories) |->
               [key |-> summary.topCategories[i].category, n |-> summary.topCategories[i].count]]
      [] kind = "name" ->
           [i \in 1..Len(summary.topBusinesses) |->
               [key |-> summary.topBusinesses[i].name, n |-> summary.topBusinesses[i].reviews]]
      [] kind = "city2025" ->
           [i \in 1..Len(summary.topCities) |->
               [key |-> summary.topCities[i].city, n |-> summary.topCities[i].count]]

\* Every rank list returned so far, with the key stream it was built from
RankCases(kinds, kinds2025) ==
    {[kind   |-> k,
      stream |-> KeyStream(k, RowsOf(run)),
      list   |-> Ranked(k, data[run.label])] :
         run \in {r \in FlavorRuns : Returned(r.label)}, k \in kinds}
    \cup
    {[kind   |-> k,
      stream |-> KeyStream(k, files["black_sesame_businesses_2025.csv"].rows),
      list   |-> Ranked(k, data["blackSesame2025"])] :
         k \in IF Returned("blackSesame2025") THEN kinds2025 ELSE {}}

KeySet(stream) == {stream[i] : i \in 1..Len(stream)}

Occurrences(stream, k) == Cardinality({i \in 1..Len(stream) : stream[i] = k})

FirstAt(stream, k) == CHOOSE i \in 1..Len(stream) : stream[i] = k /\ \A j \in 1..(i - 1) : stream[j] # k

Listed(list) == {list[i].key : i \in 1..Len(list)}

\* C3: a rank list of cities, states or categories has at most TopN
\* entries, counts that never increase down the list, no count below 1,
\* and all the keys when there are fewer than TopN.
RankListsBounded ==
    \A c \in RankCases({"city", "state", "category"}, {"city2025", "state"}) :
        /\ Len(c.list) <= TopN
        /\ \A i, j \in 1..Len(c.list) : i < j => c.list[i].n >= c.list[j].n
        /\ \A i \in 1..Len(c.list) : c.list[i].n >= 1
        /\ Cardinality(KeySet(c.stream)) < TopN =>
               /\ Listed(c.list) = KeySet(c.stream)
               /\ Len(c.list) = Cardinality(KeySet(c.stream))

\* C3: a returned topCities cut to TopN of more distinct keys, with unequal
\* counts, beside a returned rank list that has all of its fewer keys
RankListsWitness ==
    /\ Returned("matcha")
    /\ \E c, d \in RankCases({"city", "category"}, {}) :
        /\ c.kind = "city"
        /\ Cardinality(KeySet(c.stream)) > TopN
        /\ Len(c.list) = TopN
        /\ c.list[1].n > c.list[TopN].n
        /\ Cardinality(KeySet(d.stream)) \in 2..(TopN - 1)
        /\ Len(d.list) = Cardinality(KeySet(d.stream))

\* C9: in every rank list of process_flavor, of two entries with equal
\* counts the one whose key was met first comes first, and a key left out
\* has no larger count than any entry and, at an equal count, was met
\* later.
TiesInEncounterOrder ==
    \A c \in RankCases({"city", "state", "category", "name"}, {}) :
        /\ \A i, j \in 1..Len(c.list) :
               (i < j /\ c.list[i].n = c.list[j].n) =>
                   FirstAt(c.stream, c.list[i].key) < FirstAt(c.stream, c.list[j].key)
        /\ \A k \in KeySet(c.stream) \ Listed(c.list) :
               \A i \in 1..Len(c.list) :
                   /\ Occurrences(c.stream, k) <= c.list[i].n
                   /\ Occurrences(c.stream, k) = c.list[i].n =>
                          FirstAt(c.stream, c.list[i].key) < FirstAt(c.stream, k)

\* C9: a returned topCities with two tied entries, and a key left out at
\* the cut-off that ties with the last entry
TiesWitness ==
    /\ Returned("blackSesame")
    /\ \E c \in RankCases({"city"}, {}) :
        /\ c.kind = "city" /\ Len(c.list) = TopN
        /\ c.list[1].n > c.list[2].n
        /\ c.list[TopN - 1].n = c.list[TopN].n
        /\ \E k \in KeySet(c.stream) \ Listed(c.list) :
               Occurrences(c.stream, k) = c.list[TopN].n

----------------------------------------------------------------------------
(* Properties of topRated (SpecRated) *)

BusinessFile == files["black_sesame_businesses_2025.csv"].rows

\* The row has an entry in topRated (the names of a dataset are distinct)
InTopRated(r) ==
    \E i \in 1..Len(data["blackSesame2025"].topRated) :
        data["blackSesame2025"].topRated[i].name = r["name"]

\* review_count = 9 and rating = 5.0
NineReviewsFiveStars(r) == PyInt(r["review_count"]).v = 9 /\ PyFloat(r["rating"]) = Fin(500)

\* review_count = 10 and a rating that parses to a number
TenReviews(r) ==
    /\ PyInt(r["review_count"]).exc = "none" /\ PyInt(r["review_count"]).v = 10
    /\ PyFloat(r["rating"]).exc = "none" /\ PyFloat(r["rating"]).kind = "fin"

\* Row j passes the filter and sorts ahead of row i
Ahead(rows, j, i) ==
    LET rj == PyFloat(rows[j]["rating"])
        ri == PyFloat(rows[i]["rating"])
        cj == PyInt(rows[j]["review_count"])
        ci == PyInt(rows[i]["review_count"])
    IN  /\ rj.exc = "none" /\ cj.exc = "none" /\ cj.v >= 10
        /\ \/ rj.v > ri.v
           \/ rj.v = ri.v /\ cj.v > ci.v
           \/ rj.v = ri.v /\ cj.v = ci.v /\ j < i

----------------------------------------------------------------------------
(* Properties of main (SpecMain) *)

\* C7: a run that fails in one of the six processing steps or in the
\* serialization leaves the output file untouched, and the file is opened
\* or written only with all six results and the serialized text in hand.
NoOutputUnlessAllSucceeded ==
    /\ (pc = "crashed" /\ error.step \in ProcessingSteps \cup {"dumps"})
           => output.state = "untouched"
    /\ output.state # "untouched" =>
           /\ Labels \subseteq DOMAIN data
           /\ js # <<>>
           /\ \A f \in FileNames : files[f].exists
    /\ output.state = "written" => output.content = <<js>>

\* C7: a run that failed on a non-numeric cell of the comparison table
\* after the three flavors were processed
NoOutputWitness ==
    /\ pc = "crashed"
    /\ error = [step |-> "comparison", exc |-> "ValueError"]
    /\ DOMAIN data = {"blackSesame", "matcha", "ube"}
    /\ outDir
    /\ output.state = "untouched"

====
